---- MODULE Spec2Model ----
(***************************************************************************)
(* Sentiment & emotion analyser: the core (sentiment_core.py) and the      *)
(* Tk shell that drives it from background threads (sentiment_gui.py).     *)
(*                                                                         *)
(* The two lexicon engines (VADER polarity, NRCLex emotions) are external: *)
(* a text carries the answers the engines give for it.  A compound score   *)
(* is an integer number of 1/10000 (VADER rounds to four decimals).        *)
(* A Python string that the code splits or joins is a sequence of chunks,  *)
(* a chunk being a separator or a word no separator occurs in.             *)
(***************************************************************************)
EXTENDS Integers, Sequences, FiniteSets, TLC

\* ------------------------------ bounds ---------------------------------
MaxRows == 2      \* rows of a dataset
MaxCols == 2      \* columns of a dataset
MaxLen  == 2      \* characters typed in the text widget
MaxRuns == 2      \* background threads started by the shell

\* ------------------------- thresholds & constants ----------------------
SENTIMENT_THRESHOLD_POS == 500
SENTIMENT_THRESHOLD_NEG == -500
TopN == 10

Labels == {"positive", "negative", "neutral"}

\* ----------------------------- input sets ------------------------------
Scores == {-10000, -501, -500, -499, -1, 0, 1, 499, 500, 501, 10000}

\* raw_emotion_scores of a text: the items of the engine's dict, in its order
RawDicts ==
  { <<>>,
    << <<"anger", 1>> >>,
    << <<"anger", 2>>, <<"fear", 1>> >>,
    << <<"fear", 0>>, <<"joy", 1>> >> }

Word == <<"w">>
CoreTexts == [body : {Word}, compound : Scores, raw : RawDicts]

\* the texts found in the cells of a dataset
Furious == [body |-> Word, compound |-> -7579, raw |-> << <<"anger", 1>>, <<"fear", 1>> >>]
Table   == [body |-> Word, compound |-> 0,     raw |-> <<>>]
Love    == [body |-> Word, compound |-> 6696,  raw |-> << <<"joy", 1>> >>]
CellTexts == {Furious, Table, Love}

RECURSIVE SeqsUpTo(_, _)
SeqsUpTo(S, n) ==
  IF n = 0 THEN {<<>>}
  ELSE LET shorter == SeqsUpTo(S, n - 1)
       IN  shorter \cup {Append(s, x) : s \in shorter, x \in S}

Range(s) == {s[i] : i \in DOMAIN s}
Min(a, b) == IF a <= b THEN a ELSE b

RECURSIVE SumCounts(_)
SumCounts(counts) ==
  IF counts = <<>> THEN 0 ELSE counts[1][2] + SumCounts(Tail(counts))

\* ------------------------------ the core -------------------------------
polarity_scores(text) == [compound |-> text.compound]

raw_emotion_scores(text) == text.raw

classify_sentiment_strict(text) ==
  LET score == polarity_scores(text).compound
  IN  IF score > SENTIMENT_THRESHOLD_POS THEN "positive"
      ELSE IF score < SENTIMENT_THRESHOLD_NEG THEN "negative"
      ELSE "neutral"

classify_sentiment(text) ==
  LET score == polarity_scores(text).compound
  IN  IF score >= SENTIMENT_THRESHOLD_POS THEN "positive"
      ELSE IF score <= SENTIMENT_THRESHOLD_NEG THEN "negative"
      ELSE "neutral"

detect_emotions(text) ==
  LET items == raw_emotion_scores(text)
      kept  == SelectSeq(items, LAMBDA it : it[2] > 0)
  IN  [i \in 1..Len(kept) |-> kept[i][1]]

\* sep.join(words): each word is one chunk
RECURSIVE Join(_, _)
Join(words, sep) ==
  IF words = <<>> THEN <<>>
  ELSE IF Len(words) = 1 THEN <<words[1]>>
  ELSE <<words[1], sep>> \o Join(Tail(words), sep)

\* str.split(sep): never an empty list, "" splits into [""]
RECURSIVE Split(_, _)
Split(str, sep) ==
  IF str = <<>> THEN << <<>> >>
  ELSE LET rest == Split(Tail(str), sep)
       IN  IF Head(str) = sep
           THEN << <<>> >> \o rest
           ELSE << <<Head(str)>> \o rest[1] >> \o Tail(rest)

\* Series.explode(): one row per list element (Split returns no empty list)
RECURSIVE Explode(_)
Explode(lists) ==
  IF lists = <<>> THEN <<>> ELSE lists[1] \o Explode(Tail(lists))

RECURSIVE Uniq(_)
Uniq(series) ==
  IF series = <<>> THEN <<>>
  ELSE LET front == Uniq(SubSeq(series, 1, Len(series) - 1))
           last  == series[Len(series)]
       IN  IF last \in Range(front) THEN front ELSE Append(front, last)

Occurrences(series, key) == Cardinality({i \in DOMAIN series : series[i] = key})

\* stable insertion by descending count
RECURSIVE InsertDesc(_, _)
InsertDesc(sorted, pair) ==
  IF sorted = <<>> THEN <<pair>>
  ELSE IF sorted[1][2] >= pair[2]
       THEN <<sorted[1]>> \o InsertDesc(Tail(sorted), pair)
       ELSE <<pair>> \o sorted

RECURSIVE SortDesc(_)
SortDesc(pairs) ==
  IF pairs = <<>> THEN <<>>
  ELSE InsertDesc(SortDesc(SubSeq(pairs, 1, Len(pairs) - 1)), pairs[Len(pairs)])

value_counts_presence(series) ==
  LET keys == Uniq(series)
  IN  SortDesc([i \in 1..Len(keys) |-> <<keys[i], 1>>])

\* Series.value_counts(): <<key, count>> by descending count
value_counts(series) ==
  LET keys == Uniq(series)
  IN  SortDesc([i \in 1..Len(keys) |-> <<keys[i], Occurrences(series, keys[i])>>])

AlphabeticalLabels == <<"negative", "neutral", "positive">>

sort_index_all_labels(counts) ==
  [i \in 1..Len(AlphabeticalLabels) |->
     <<AlphabeticalLabels[i],
       SumCounts(SelectSeq(counts, LAMBDA p : p[1] = AlphabeticalLabels[i]))>>]

\* Series.sort_index() of a series keyed by sentiment label
sort_index(counts) ==
  LET present == SelectSeq(AlphabeticalLabels,
                           LAMBDA l : \E i \in DOMAIN counts : counts[i][1] = l)
  IN  [i \in 1..Len(present) |->
         (CHOOSE p \in Range(counts) : p[1] = present[i])]

head(series, n) == SubSeq(series, 1, Min(n, Len(series)))

\* A DataFrame: the column names in order, and column j's cells in data[j]
NRows(df) == IF df.data = <<>> THEN 0 ELSE Len(df.data[1])

\* df[name]: the positions of the columns called name
GetItem(df, name) ==
  SelectSeq([j \in 1..Len(df.columns) |-> j], LAMBDA j : df.columns[j] = name)

NotCalled ==
  [called |-> FALSE, raised |-> FALSE, selected |-> <<>>,
   sentiment_counts |-> <<>>, emotion_counts |-> <<>>]

analyse_dataframe(df, text_col) ==
  LET selected == GetItem(df, text_col)
  IN  IF Len(selected) # 1
      THEN \* no such column: KeyError.  Several: df[text_col] is a frame, apply
           \* hands whole columns to classify_sentiment and the engine raises
           [called |-> TRUE, raised |-> TRUE, selected |-> selected,
            sentiment_counts |-> <<>>, emotion_counts |-> <<>>]
      ELSE LET texts     == df.data[selected[1]]
               sentiment == [i \in 1..Len(texts) |-> classify_sentiment(texts[i])]
               emotions  == [i \in 1..Len(texts) |-> Join(detect_emotions(texts[i]), ",")]
               sentiment_counts == sort_index(value_counts(sentiment))
               emotion_series   == Explode([i \in 1..Len(emotions) |-> Split(emotions[i], ",")])
               emotion_counts   == value_counts(emotion_series)
           IN  [called |-> TRUE, raised |-> FALSE, selected |-> selected,
                sentiment_counts |-> sentiment_counts,
                emotion_counts |-> emotion_counts]

\* --------------------------- paths and files ---------------------------
\* Path.suffix: from the last "." of the name on, unless the name starts there
LastDot(name) ==
  LET dots == {i \in DOMAIN name : name[i] = "."}
  IN  IF dots = {} THEN 0 ELSE CHOOSE i \in dots : \A j \in dots : j <= i

Stem(name) ==
  IF LastDot(name) <= 1 THEN name ELSE SubSeq(name, 1, LastDot(name) - 1)

Raised == <<"ValueError">>

with_suffix_unchecked(name, suffix) == Stem(name) \o suffix

\* Path.with_suffix(suffix): a suffix that does not start with "." is invalid
with_suffix(name, suffix) ==
  IF suffix # <<>> /\ suffix[1] # "."
  THEN Raised
  ELSE Stem(name) \o suffix

NoFileSelected == <<"No file selected">>
CsvName        == <<"data", ".", "csv">>
OtherName      == <<"reviews", ".", "csv">>
SentimentSuffix == <<"_sentiment", ".", "png">>
EmotionsSuffix  == <<"_emotions", ".", "png">>
NoPath == <<>>

\* ------------------------------ datasets -------------------------------
ColNames == {"text", "Review", "comment", "id"}

\* str.lower() on the column names of the datasets
Lower(name) == IF name = "Review" THEN "review" ELSE name

Distinct(s) == \A i, j \in DOMAIN s : i # j => s[i] # s[j]
ColSeqs == {cs \in SeqsUpTo(ColNames, MaxCols) : Distinct(cs)}

\* column j of a dataset read from disk holds the same text in every row
Fill(j) == IF j % 3 = 1 THEN Furious ELSE IF j % 3 = 2 THEN Love ELSE Table

Frame(columns, n) ==
  [columns |-> columns,
   data    |-> [j \in 1..Len(columns) |-> [i \in 1..n |-> Fill(j)]]]

EmptyFrame == [columns |-> <<>>, data |-> <<>>]
Malformed  == [readable |-> FALSE, df |-> EmptyFrame]
CsvFiles ==
  {Malformed} \cup
  {[readable |-> TRUE, df |-> Frame(cs, 1)] : cs \in ColSeqs}

\* the second file on disk
Reviews == [readable |-> TRUE, df |-> Frame(<<"id", "Review">>, 1)]

\* datasets handed to the aggregator directly: the text column holds any cells
CoreFrames ==
  {[columns |-> <<"text">>, data |-> <<rows>>] : rows \in SeqsUpTo(CellTexts, MaxRows)}
  \cup
  {[columns |-> <<"id", "text">>, data |-> <<[i \in 1..Len(rows) |-> Love], rows>>] :
     rows \in SeqsUpTo(CellTexts, MaxRows)}

\* ------------------------------ the shell ------------------------------
Whitespace == {" ", "\t", "\n", "\r"}

RECURSIVE lstrip(_, _)
lstrip(s, chars) ==
  IF s # <<>> /\ Head(s) \in chars THEN lstrip(Tail(s), chars) ELSE s

RECURSIVE rstrip(_, _)
rstrip(s, chars) ==
  IF s # <<>> /\ s[Len(s)] \in chars
  THEN rstrip(SubSeq(s, 1, Len(s) - 1), chars) ELSE s

strip_spaces(s) == rstrip(lstrip(s, {" "}), {" "})

\* str.strip()
strip(s) == rstrip(lstrip(s, Whitespace), Whitespace)

\* what the user can have typed, with the engines' answers for it
Bodies == SeqsUpTo({" ", "w"}, MaxLen)
Typed ==
  {[body |-> b, compound |-> 0, raw |-> <<>>] : b \in Bodies}
  \cup
  {[body |-> b, compound |-> Furious.compound, raw |-> Furious.raw] :
     b \in {x \in Bodies : "w" \in Range(x)}}

Threads == 1..MaxRuns

VARIABLES
  call,             \* the last direct call of the core: function, argument, result
  csv,              \* what the CSV file on disk holds
  disk,             \* the names of the files that exist
  txt_input,        \* the text widget
  lbl_file,         \* the file label's text
  listbox,          \* the result lines shown
  last_plot_paths,  \* SentimentApp._last_plot_paths
  pc,               \* where each background thread is
  loc               \* each background thread's locals

vars == <<call, csv, disk, txt_input, lbl_file, listbox, last_plot_paths, pc, loc>>

NoCall ==
  [fn |-> "none", text |-> Table, df |-> EmptyFrame, text_col |-> "",
   label |-> "", emotions |-> <<>>, result |-> NotCalled]

NoLocals ==
  [got |-> <<>>, text |-> <<>>, core |-> {}, sentiment |-> "", emotions |-> <<>>,
   file_path |-> NoPath, df |-> EmptyFrame, read |-> FALSE, possible_cols |-> <<>>,
   text_col |-> "", agg |-> NotCalled, lines |-> <<>>, after |-> "",
   msg |-> "", saving |-> NoPath, wrote |-> {}]

Line(fmt, i, v) == [fmt |-> fmt, i |-> i, v |-> v]

Init ==
  /\ call = NoCall
  /\ csv \in CsvFiles
  /\ disk = {CsvName, OtherName}
  /\ txt_input = [body |-> <<>>, compound |-> 0, raw |-> <<>>]
  /\ lbl_file = NoFileSelected
  /\ listbox = <<>>
  /\ last_plot_paths = <<>>
  /\ pc = [t \in Threads |-> "idle"]
  /\ loc = [t \in Threads |-> NoLocals]

InitCore ==
  /\ call = NoCall
  /\ csv = Malformed
  /\ disk = {CsvName, OtherName}
  /\ txt_input = [body |-> <<>>, compound |-> 0, raw |-> <<>>]
  /\ lbl_file = NoFileSelected
  /\ listbox = <<>>
  /\ last_plot_paths = <<>>
  /\ pc = [t \in Threads |-> "idle"]
  /\ loc = [t \in Threads |-> NoLocals]

InitText ==
  /\ call = NoCall
  /\ csv = Malformed
  /\ disk = {CsvName, OtherName}
  /\ txt_input \in Typed
  /\ lbl_file = NoFileSelected
  /\ listbox = <<>>
  /\ last_plot_paths = <<>>
  /\ pc = [t \in Threads |-> "idle"]
  /\ loc = [t \in Threads |-> NoLocals]

shell == <<csv, disk, txt_input, lbl_file, listbox, last_plot_paths, pc, loc>>

\* ------------------------- direct calls of the core --------------------
CallClassify ==
  \E text \in CoreTexts :
    /\ call' = [NoCall EXCEPT !.fn = "classify_sentiment", !.text = text,
                              !.label = classify_sentiment(text)]
    /\ UNCHANGED shell

CallDetect ==
  \E text \in CoreTexts :
    /\ call' = [NoCall EXCEPT !.fn = "detect_emotions", !.text = text,
                              !.emotions = detect_emotions(text)]
    /\ UNCHANGED shell

CallAnalyse ==
  \E df \in CoreFrames :
    /\ call' = [NoCall EXCEPT !.fn = "analyse_dataframe", !.df = df, !.text_col = "text",
                              !.result = analyse_dataframe(df, "text")]
    /\ UNCHANGED shell

NextCore == CallClassify \/ CallDetect \/ CallAnalyse

SpecCore == InitCore /\ [][NextCore]_vars

\* ------------------------------ the shell's actions --------------------
Accepted == {"text", "review", "comment"}

possible_cols_any(df) == df.columns

\* [c for c in df.columns if c.lower() in {"text", "review", "comment"}]
possible_cols(df) ==
  SelectSeq(df.columns, LAMBDA c : Lower(c) \in Accepted)

pick_last(cols) == cols[Len(cols)]

\* possible_cols[0]
pick(cols) == cols[1]

\* df.rename(columns={old: new})
rename(df, old, new) ==
  [df EXCEPT !.columns = [j \in DOMAIN df.columns |->
                            IF df.columns[j] = old THEN new ELSE df.columns[j]]]

\* the user edits the text widget
TypeText ==
  /\ txt_input' \in Typed
  /\ UNCHANGED <<call, csv, disk, lbl_file, listbox, last_plot_paths, pc, loc>>

\* threads are numbered in the order the shell starts them
NextThread(t) == pc[t] = "idle" /\ \A u \in Threads : u < t => pc[u] # "idle"

\* "Analyze Text": run_in_thread starts a thread on _on_analyse_text
ClickAnalyseText(t) ==
  /\ NextThread(t)
  /\ pc' = [pc EXCEPT ![t] = "analyse_text"]
  /\ UNCHANGED <<call, csv, disk, txt_input, lbl_file, listbox, last_plot_paths, loc>>

\* _on_analyse_text up to its call of _display_results
AnalyseText(t) ==
  /\ pc[t] = "analyse_text"
  /\ LET got  == Append(txt_input.body, "\n")      \* Text.get("1.0", END)
         body == strip(got)
         text == [txt_input EXCEPT !.body = body]
     IN  IF body = <<>>
         THEN \* the warning is asked of tkinter.messagebox, and the name tkinter
              \* is not bound in the module: NameError ends the thread
              /\ loc' = [loc EXCEPT ![t].got = got, ![t].text = body,
                                    ![t].msg = "NameError"]
              /\ pc' = [pc EXCEPT ![t] = "crashed"]
         ELSE /\ loc' = [loc EXCEPT
                   ![t].core = {"classify_sentiment", "detect_emotions"},
                   ![t].sentiment = classify_sentiment(text),
                   ![t].emotions = detect_emotions(text),
                   ![t].lines = <<Line("Sentiment: {}", <<classify_sentiment(text)>>, 0),
                                  Line("Emotions: {}",
                                       Join(detect_emotions(text), ", "), 0)>>,
                   ![t].after = "done"]
              /\ pc' = [pc EXCEPT ![t] = "display"]
  /\ UNCHANGED <<call, csv, disk, txt_input, lbl_file, listbox, last_plot_paths>>

\* _select_csv: the dialog returns an existing file's name, or "" when cancelled
SelectCsv ==
  /\ \E file_path \in {<<>>, CsvName, OtherName} :
       lbl_file' = IF file_path # <<>> THEN file_path ELSE lbl_file
  /\ UNCHANGED <<call, csv, disk, txt_input, listbox, last_plot_paths, pc, loc>>

\* "Analyze CSV": run_in_thread starts a thread on _on_analyse_csv
ClickAnalyseCsv(t) ==
  /\ NextThread(t)
  /\ pc' = [pc EXCEPT ![t] = "read_csv"]
  /\ UNCHANGED <<call, csv, disk, txt_input, lbl_file, listbox, last_plot_paths, loc>>

\* what pd.read_csv finds in a file
Content(name) == IF name = CsvName THEN csv ELSE Reviews

\* _on_analyse_csv: the file check and pd.read_csv
ReadCsv(t) ==
  /\ pc[t] = "read_csv"
  /\ LET file_path == lbl_file
     IN  IF file_path \notin disk
         THEN /\ loc' = [loc EXCEPT ![t].file_path = file_path, ![t].msg = "File missing"]
              /\ pc' = [pc EXCEPT ![t] = "done"]
         ELSE IF ~Content(file_path).readable
         THEN /\ loc' = [loc EXCEPT ![t].file_path = file_path, ![t].msg = "Read error"]
              /\ pc' = [pc EXCEPT ![t] = "done"]
         ELSE /\ loc' = [loc EXCEPT ![t].file_path = file_path, ![t].df = Content(file_path).df,
                                    ![t].read = TRUE]
              /\ pc' = [pc EXCEPT ![t] = "detect"]
  /\ UNCHANGED <<call, csv, disk, txt_input, lbl_file, listbox, last_plot_paths>>

\* _on_analyse_csv: the text column is looked for and renamed
DetectColumn(t) ==
  /\ pc[t] = "detect"
  /\ LET cols == possible_cols(loc[t].df)
     IN  IF cols = <<>>
         THEN /\ loc' = [loc EXCEPT ![t].possible_cols = cols, ![t].msg = "Missing column"]
              /\ pc' = [pc EXCEPT ![t] = "done"]
         ELSE LET text_col == pick(cols)
              IN  /\ loc' = [loc EXCEPT
                       ![t].possible_cols = cols,
                       ![t].text_col = text_col,
                       ![t].df = IF text_col # "text"
                                 THEN rename(loc[t].df, text_col, "text")
                                 ELSE loc[t].df]
                  /\ pc' = [pc EXCEPT ![t] = "analyse"]
  /\ UNCHANGED <<call, csv, disk, txt_input, lbl_file, listbox, last_plot_paths>>

\* _on_analyse_csv: the aggregator runs and the output lines are prepared
Analyse(t) ==
  /\ pc[t] = "analyse"
  /\ LET agg == analyse_dataframe(loc[t].df, "text")
         top == head(agg.emotion_counts, TopN)
     IN  IF agg.raised
         THEN /\ loc' = [loc EXCEPT ![t].agg = agg]
              /\ pc' = [pc EXCEPT ![t] = "crashed"]
         ELSE /\ loc' = [loc EXCEPT
                   ![t].agg = agg,
                   ![t].lines =
                     <<Line("Sentiment distribution:", <<>>, 0)>>
                     \o [k \in DOMAIN agg.sentiment_counts |->
                           Line("  {}: {}", <<agg.sentiment_counts[k][1]>>,
                                agg.sentiment_counts[k][2])]
                     \o <<Line("Top emotions (top 10):", <<>>, 0)>>
                     \o [k \in DOMAIN top |-> Line("  {}: {}", top[k][1], top[k][2])],
                   ![t].after = "clear"]
              /\ pc' = [pc EXCEPT ![t] = "display"]
  /\ UNCHANGED <<call, csv, disk, txt_input, lbl_file, listbox, last_plot_paths>>

\* _display_results: listbox.delete(0, END)
DisplayDelete(t) ==
  /\ pc[t] = "display"
  /\ listbox' = <<>>
  /\ pc' = [pc EXCEPT ![t] = "insert"]
  /\ UNCHANGED <<call, csv, disk, txt_input, lbl_file, last_plot_paths, loc>>

\* _display_results: the loop of listbox.insert(END, line)
DisplayInsert(t) ==
  /\ pc[t] = "insert"
  /\ listbox' = listbox \o loc[t].lines
  /\ pc' = [pc EXCEPT ![t] = loc[t].after]
  /\ UNCHANGED <<call, csv, disk, txt_input, lbl_file, last_plot_paths, loc>>

\* self._last_plot_paths.clear()
ClearPlots(t) ==
  /\ pc[t] = "clear"
  /\ last_plot_paths' = <<>>
  /\ pc' = [pc EXCEPT ![t] = "plot_sentiment"]
  /\ UNCHANGED <<call, csv, disk, txt_input, lbl_file, listbox, loc>>

\* self._last_plot_paths.append(plot_bar(counts, title, file_path.with_suffix(..))):
\* the target is computed and plot_bar entered; then savefig writes the file,
\* plot_bar returns the path and the path is appended
GeneratePlot(t) ==
  /\ pc[t] \in {"plot_sentiment", "plot_emotions"}
  /\ LET suffix == IF pc[t] = "plot_sentiment" THEN SentimentSuffix ELSE EmotionsSuffix
         target == with_suffix(loc[t].file_path, suffix)
     IN  IF loc[t].saving = NoPath
         THEN IF target = Raised
              THEN /\ pc' = [pc EXCEPT ![t] = "crashed"]
                   /\ UNCHANGED <<loc, disk, last_plot_paths>>
              ELSE /\ loc' = [loc EXCEPT ![t].saving = target]
                   /\ UNCHANGED <<pc, disk, last_plot_paths>>
         ELSE /\ disk' = disk \cup {loc[t].saving}
              /\ last_plot_paths' = Append(last_plot_paths, loc[t].saving)
              /\ loc' = [loc EXCEPT
                   ![t].saving = NoPath,
                   ![t].wrote = loc[t].wrote \cup {loc[t].saving},
                   ![t].lines = <<Line("Plots saved to same folder as CSV.", <<>>, 0)>>,
                   ![t].after = "done"]
              /\ pc' = [pc EXCEPT ![t] = IF pc[t] = "plot_sentiment"
                                         THEN "plot_emotions" ELSE "display"]
  /\ UNCHANGED <<call, csv, txt_input, lbl_file, listbox>>

NextText ==
  \/ TypeText
  \/ \E t \in Threads : ClickAnalyseText(t)
  \/ \E t \in Threads : AnalyseText(t)
  \/ \E t \in Threads : DisplayDelete(t)
  \/ \E t \in Threads : DisplayInsert(t)

NextCsv ==
  \/ SelectCsv
  \/ \E t \in Threads : ClickAnalyseCsv(t)
  \/ \E t \in Threads : ReadCsv(t)
  \/ \E t \in Threads : DetectColumn(t)
  \/ \E t \in Threads : Analyse(t)
  \/ \E t \in Threads : DisplayDelete(t)
  \/ \E t \in Threads : DisplayInsert(t)
  \/ \E t \in Threads : ClearPlots(t)
  \/ \E t \in Threads : GeneratePlot(t)

SpecText == InitText /\ [][NextText]_vars

SpecCsv == Init /\ [][NextCsv]_vars

\* =========================== the claims ================================

\* C1: classify_sentiment returns exactly one label, decided by the compound
\* score c alone: positive when c >= 0.05, negative when c <= -0.05, neutral
\* otherwise; c = 0.05 gives positive and c = -0.05 gives negative.
C1_ClassifyByThreshold ==
  call.fn = "classify_sentiment" =>
    LET c == call.text.compound
    IN  /\ call.label \in Labels
        /\ (c >= 500 <=> call.label = "positive")
        /\ (c <= -500 <=> call.label = "negative")
        /\ ((-500 < c /\ c < 500) <=> call.label = "neutral")

C1_AtBoundary ==
  /\ call.fn = "classify_sentiment"
  /\ call.text.compound = 500
  /\ call.label = "positive"

\* C2: the sentiment counts of analyse_dataframe sum to the number of rows,
\* and their keys are among negative, neutral, positive.
C2_SentimentCountsSumToRows ==
  call.fn = "analyse_dataframe" =>
    /\ ~call.result.raised
    /\ SumCounts(call.result.sentiment_counts) = NRows(call.df)
    /\ \A k \in DOMAIN call.result.sentiment_counts :
         /\ call.result.sentiment_counts[k][1] \in Labels
         /\ call.result.sentiment_counts[k][2] > 0

C2_RowsShareLabel ==
  /\ call.fn = "analyse_dataframe"
  /\ NRows(call.df) >= 2
  /\ Len(call.result.sentiment_counts) = 1
  /\ SumCounts(call.result.sentiment_counts) = NRows(call.df)

\* the emotion tags the detector finds in the rows of the text column
RECURSIVE TagsIn(_)
TagsIn(texts) ==
  IF texts = <<>> THEN 0
  ELSE Cardinality({i \in DOMAIN texts[1].raw : texts[1].raw[i][2] > 0})
       + TagsIn(Tail(texts))

\* C3: the emotion counts of analyse_dataframe hold only emotion categories:
\* no empty token is counted, a row without emotions adds nothing, and the
\* counts sum to the number of emotion tags of the rows.
C3_OnlyEmotionTagsCounted ==
  call.fn = "analyse_dataframe" =>
    /\ \A k \in DOMAIN call.result.emotion_counts :
         call.result.emotion_counts[k][1] # <<>>
    /\ SumCounts(call.result.emotion_counts)
         = TagsIn(call.df.data[CHOOSE j \in DOMAIN call.df.columns :
                                 call.df.columns[j] = call.text_col])

\* C9: for a dataset of zero rows analyse_dataframe raises nothing and both
\* of its frequency distributions are empty.
C9_ZeroRowsEmptyCounts ==
  (call.fn = "analyse_dataframe" /\ NRows(call.df) = 0) =>
    /\ ~call.result.raised
    /\ call.result.sentiment_counts = <<>>
    /\ call.result.emotion_counts = <<>>

C9_ZeroRowsAnalysed ==
  /\ call.fn = "analyse_dataframe"
  /\ NRows(call.df) = 0
  /\ Len(call.df.columns) = 2
  /\ call.result.called

\* the columns of the file a thread read whose lowercased name is accepted
Matching(columns) ==
  {j \in DOMAIN columns : Lower(columns[j]) \in {"text", "review", "comment"}}

FirstOf(S) == CHOOSE j \in S : \A k \in S : j <= k

\* the dataset as read from the file the thread analyses
FileFrame(t) == Content(loc[t].file_path).df

\* C4: a batch run analyses the first column, in column order, whose
\* lowercased name is text, review or comment: it is the one column called
\* text when the aggregator runs, and the aggregator reads its contents.
C4_FirstMatchingColumnAnalysed ==
  \A t \in Threads :
    loc[t].agg.called =>
      /\ ~loc[t].agg.raised
      /\ loc[t].agg.selected = <<FirstOf(Matching(FileFrame(t).columns))>>

HasTextAndOther(columns) ==
  /\ \E j \in DOMAIN columns : columns[j] = "text"
  /\ \E j \in DOMAIN columns : Lower(columns[j]) \in {"review", "comment"}

TextAt(columns) == CHOOSE j \in DOMAIN columns : columns[j] = "text"

\* C5 as stated: whenever a column named text stands beside a review or
\* comment column, in any column order, the batch run analyses text.
C5_TextPreferredInAnyOrder ==
  \A t \in Threads :
    (loc[t].agg.called /\ HasTextAndOther(FileFrame(t).columns)) =>
      /\ ~loc[t].agg.raised
      /\ loc[t].agg.selected = <<TextAt(FileFrame(t).columns)>>

\* C5 amended: detection is case-insensitive and takes the first matching
\* column in column order; a column named text beside a review or comment
\* column is analysed when text is the first of the matching columns.
C5_TextAnalysedWhenFirst ==
  \A t \in Threads :
    (/\ loc[t].agg.called
     /\ HasTextAndOther(FileFrame(t).columns)
     /\ FirstOf(Matching(FileFrame(t).columns)) = TextAt(FileFrame(t).columns)) =>
      /\ ~loc[t].agg.raised
      /\ loc[t].agg.selected = <<TextAt(FileFrame(t).columns)>>

C5_TextBeforeReview ==
  \E t \in Threads :
    /\ loc[t].agg.called
    /\ FileFrame(t).columns = <<"text", "Review">>
    /\ loc[t].agg.selected = <<1>>
    /\ ~loc[t].agg.raised

Ended(t) == pc[t] \in {"done", "crashed"}

\* C6: a batch run on a readable dataset with a usable text column ends with
\* two image files written beside the input, named by replacing the input's
\* extension with _sentiment.png and _emotions.png.
C6_TwoImagesWritten ==
  \A t \in Threads :
    (Ended(t) /\ loc[t].agg.called /\ ~loc[t].agg.raised) =>
      LET stem == SubSeq(loc[t].file_path, 1, Len(loc[t].file_path) - 2)
          images == {stem \o <<"_sentiment", ".", "png">>,
                     stem \o <<"_emotions", ".", "png">>}
      IN  /\ loc[t].wrote = images
          /\ images \subseteq disk

\* C7: with no column whose lowercased name is text, review or comment the
\* run reports the missing-column error and stops there: the aggregator is
\* not called, no file is written, and the result lines and the stored plot
\* paths are as they were.
C7_MissingColumnStops ==
  [][\A t \in Threads :
       /\ (pc[t] = "detect" /\ pc'[t] # "detect" /\ Matching(loc[t].df.columns) = {}) =>
            /\ pc'[t] = "done"
            /\ loc'[t].msg = "Missing column"
            /\ ~loc'[t].agg.called
            /\ loc'[t].wrote = {}
            /\ UNCHANGED <<listbox, last_plot_paths, disk>>
       /\ (pc[t] = "done" => pc'[t] = "done")]_vars

C7_MissingColumnReported ==
  \E t \in Threads :
    /\ pc[t] = "done"
    /\ loc[t].msg = "Missing column"
    /\ ~loc[t].agg.called
    /\ listbox # <<>>

IsBlank(chars) == \A i \in DOMAIN chars : chars[i] \in {" ", "\n"}

\* C8: on empty or whitespace-only text the single-text action calls neither
\* classify_sentiment nor detect_emotions and leaves the result lines as
\* they were.
C8_BlankTextRejected ==
  [][\A t \in Threads :
       /\ (pc[t] = "analyse_text" /\ pc'[t] # "analyse_text" /\ IsBlank(txt_input.body)) =>
            /\ Ended(t)'
            /\ loc'[t].core = {}
            /\ UNCHANGED listbox
       /\ (Ended(t) => UNCHANGED <<pc[t], loc[t]>>)]_vars

C8_WhitespaceRejected ==
  \E t \in Threads :
    /\ Ended(t)
    /\ Len(loc[t].got) > 1
    /\ IsBlank(loc[t].got)
    /\ loc[t].core = {}
    /\ listbox # <<>>

====
